---- MODULE Spec2Model ----
(***************************************************************************)
(* Model of the provider grouping scripts of XII-ProjectDeck.              *)
(*                                                                         *)
(* A Python str is a sequence of one-character strings, so that the       *)
(* regular expressions, lower(), strip() and string comparison of the     *)
(* source are computed character by character.  The alphabet is a subset  *)
(* of printable ASCII; it holds one whitespace character (the space) and  *)
(* no line terminator.                                                     *)
(***************************************************************************)
EXTENDS Integers, Sequences, FiniteSets, TLC

VARIABLES call, fs, pc, argv, exit_code, stdout, result,
          _CACHE, now, requests, log

\* The state of the API server of Back_End/app.py: the cache, the clock of
\* the event loop, the /providers requests being handled, and the calls made
\* to the cache and to the places provider, in the order they were made.
appVars == <<_CACHE, now, requests, log>>

vars == <<call, fs, pc, argv, exit_code, stdout, result, _CACHE, now, requests, log>>

\* The server before it has handled a request; the scripts never touch it.
AppIdle ==
  /\ _CACHE = <<>>
  /\ now = 0
  /\ requests = <<>>
  /\ log = <<>>

(***************************************************************************)
(* Characters                                                              *)
(***************************************************************************)
DigitSeq == <<"0", "1", "2", "3", "4", "5", "6", "7", "8", "9">>

UpperSeq == <<"A", "B", "C", "D", "E", "F", "G", "H", "I", "J", "K", "L", "M",
              "N", "O", "P", "Q", "R", "S", "T", "U", "V", "W", "X", "Y", "Z">>

LowerSeq == <<"a", "b", "c", "d", "e", "f", "g", "h", "i", "j", "k", "l", "m",
              "n", "o", "p", "q", "r", "s", "t", "u", "v", "w", "x", "y", "z">>

Range(f) == {f[i] : i \in DOMAIN f}

IndexOf(seq, c) == CHOOSE i \in DOMAIN seq : seq[i] = c

\* Punctuation of the alphabet with its code point.
PunctCode == [c \in {" ", "#", ",", "-", ".", "_", "|"} |->
                CASE c = " " -> 32 [] c = "#" -> 35 [] c = "," -> 44
                  [] c = "-" -> 45 [] c = "." -> 46 [] c = "_" -> 95
                  [] c = "|" -> 124]

Chars == Range(DigitSeq) \cup Range(UpperSeq) \cup Range(LowerSeq) \cup DOMAIN PunctCode

\* ord(c): the code point, which is what Python compares strings by.
ord == [c \in Chars |->
          IF c \in Range(DigitSeq) THEN 47 + IndexOf(DigitSeq, c)
          ELSE IF c \in Range(UpperSeq) THEN 64 + IndexOf(UpperSeq, c)
          ELSE IF c \in Range(LowerSeq) THEN 96 + IndexOf(LowerSeq, c)
          ELSE PunctCode[c]]

\* str.lower() on one character.
lower_char == [c \in Chars |->
                 IF c \in Range(UpperSeq) THEN LowerSeq[IndexOf(UpperSeq, c)] ELSE c]

\* Whitespace as str.strip() and the regex class \s see it.
isspace(c) == c = " "

\* The regex class [a-z0-9] under re.IGNORECASE.
isalnum(c) == c \in Range(DigitSeq) \cup Range(UpperSeq) \cup Range(LowerSeq)

\* The regex class \w, which decides \b.
isword(c) == isalnum(c) \/ c = "_"

(***************************************************************************)
(* Python values                                                           *)
(***************************************************************************)
\* None (a JSON null, or dict.get of a missing key).
None == <<"<None>">>

\* Truth value of a str or None.
Truthy(v) == v # None /\ v # <<>>

\* x or d
Or(v, d) == IF Truthy(v) THEN v ELSE d

\* dict.get(k) and dict.get(k, default); a dict is a function on its keys.
Get(p, k) == IF k \in DOMAIN p THEN p[k] ELSE None

GetDefault(p, k, d) == IF k \in DOMAIN p THEN p[k] ELSE d

\* str.lower()
lower(s) == [i \in 1..Len(s) |-> lower_char[s[i]]]

RECURSIVE lstrip(_)
lstrip(s) == IF s # <<>> /\ isspace(Head(s)) THEN lstrip(Tail(s)) ELSE s

RECURSIVE rstrip(_)
rstrip(s) ==
  IF s # <<>> /\ isspace(s[Len(s)]) THEN rstrip(SubSeq(s, 1, Len(s) - 1)) ELSE s

\* str.strip()
strip(s) == rstrip(lstrip(s))

RECURSIVE StrLess(_, _)
\* a < b on str: lexicographic by code point.
StrLess(a, b) ==
  IF b = <<>> THEN FALSE
  ELSE IF a = <<>> THEN TRUE
  ELSE IF Head(a) = Head(b) THEN StrLess(Tail(a), Tail(b))
  ELSE ord[Head(a)] < ord[Head(b)]

StrLeq(a, b) == a = b \/ StrLess(a, b)

RECURSIVE Join(_, _)
\* sep.join(parts)
Join(sep, parts) ==
  IF parts = <<>> THEN <<>>
  ELSE IF Len(parts) = 1 THEN parts[1]
  ELSE parts[1] \o sep \o Join(sep, Tail(parts))

(***************************************************************************)
(* Regular expressions of group_by_address.py                              *)
(***************************************************************************)
\* \b before position i (1-based) of s.
WordBoundaryAt(s, i) ==
  (i > 1 /\ i - 1 <= Len(s) /\ isword(s[i - 1])) # (i <= Len(s) /\ isword(s[i]))

\* The literal w matches s at position i.
StartsWithAt(s, i, w) ==
  /\ i + Len(w) - 1 <= Len(s)
  /\ \A k \in 1..Len(w) : s[i + k - 1] = w[k]

RECURSIVE SkipSpace(_, _)
\* \s* from position i: the first position not holding whitespace.
SkipSpace(s, i) ==
  IF i <= Len(s) /\ isspace(s[i]) THEN SkipSpace(s, i + 1) ELSE i

RECURSIVE SkipSep(_, _)
\* [,\s]* from position i.
SkipSep(s, i) ==
  IF i <= Len(s) /\ (isspace(s[i]) \/ s[i] = ",") THEN SkipSep(s, i + 1) ELSE i

RECURSIVE FirstAlt(_, _, _, _)
\* The first alternative of alts, in their order, that matches at i and
\* satisfies the trailing \b when the rule has one (wb); <<>> when none does.
FirstAlt(s, i, alts, wb) ==
  IF alts = <<>> THEN <<>>
  ELSE IF /\ StartsWithAt(s, i, Head(alts))
          /\ (wb => WordBoundaryAt(s, i + Len(Head(alts))))
       THEN Head(alts)
       ELSE FirstAlt(s, i, Tail(alts), wb)

\* \.? from position e.
SkipDot(s, e) == IF e <= Len(s) /\ s[e] = "." THEN e + 1 ELSE e

\* \s*\.?\s* from position e.
SkipMarkerTail(s, e) == SkipSpace(s, SkipDot(s, SkipSpace(s, e)))

\* Length of the match of (w)\.? at position i, w the alternative found.
StreetTypeLen(s, i, w) == IF w = <<>> THEN 0 ELSE SkipDot(s, i + Len(w)) - i

\* Length of the match of \b(abbr|full)\b\.? at position i, 0 when none.
StreetTypeMatch(s, i, alts) ==
  IF ~WordBoundaryAt(s, i) THEN 0
  ELSE StreetTypeLen(s, i, FirstAlt(s, i, alts, TRUE))

\* Length of the match of (w)\s*\.?\s* at position i, w the alternative found.
MarkerLen(s, i, w) == IF w = <<>> THEN 0 ELSE SkipMarkerTail(s, i + Len(w)) - i

\* Length of the match of \b(m1|m2|..)\s*\.?\s* at position i, 0 when none.
MarkerMatch(s, i, alts) ==
  IF ~WordBoundaryAt(s, i) THEN 0
  ELSE MarkerLen(s, i, FirstAlt(s, i, alts, FALSE))

\* Length of the match of [,\s]+ at position i, 0 when none.
SepMatch(s, i) == SkipSep(s, i) - i

\* Length of the match of a substitution rule at position i.
MatchLen(rule, s, i) ==
  CASE rule.kind = "street_type" -> StreetTypeMatch(s, i, rule.alts)
    [] rule.kind = "marker" -> MarkerMatch(s, i, rule.alts)
    [] rule.kind = "sep" -> SepMatch(s, i)

RECURSIVE SubFrom(_, _, _)
RECURSIVE SubStep(_, _, _, _)
\* re.sub from position i on: every non-overlapping match, left to right,
\* replaced by rule.repl (no rule matches the empty string).
SubFrom(rule, s, i) ==
  IF i > Len(s) THEN <<>> ELSE SubStep(rule, s, i, MatchLen(rule, s, i))

\* One position of re.sub: n is the length of the match at i, 0 when none.
SubStep(rule, s, i, n) ==
  IF n > 0 THEN rule.repl \o SubFrom(rule, s, i + n)
  ELSE <<s[i]>> \o SubFrom(rule, s, i + 1)

\* re.sub(rule, repl, s)
re_sub(rule, s) == SubFrom(rule, s, 1)

w_st == <<"s", "t">>
w_street == <<"s", "t", "r", "e", "e", "t">>
w_ave == <<"a", "v", "e">>
w_avenue == <<"a", "v", "e", "n", "u", "e">>
w_rd == <<"r", "d">>
w_road == <<"r", "o", "a", "d">>
w_blvd == <<"b", "l", "v", "d">>
w_boulevard == <<"b", "o", "u", "l", "e", "v", "a", "r", "d">>
w_dr == <<"d", "r">>
w_drive == <<"d", "r", "i", "v", "e">>
w_ct == <<"c", "t">>
w_court == <<"c", "o", "u", "r", "t">>
w_ln == <<"l", "n">>
w_lane == <<"l", "a", "n", "e">>
w_ste == <<"s", "t", "e">>
w_suite == <<"s", "u", "i", "t", "e">>
w_unit == <<"u", "n", "i", "t">>
w_apt == <<"a", "p", "t">>
w_apartment == <<"a", "p", "a", "r", "t", "m", "e", "n", "t">>

\* The street-type substitutions, in the order the code applies them.
StreetTypeRules ==
  << [kind |-> "street_type", alts |-> <<w_st, w_street>>, repl |-> w_street],
     [kind |-> "street_type", alts |-> <<w_ave, w_avenue>>, repl |-> w_avenue],
     [kind |-> "street_type", alts |-> <<w_rd, w_road>>, repl |-> w_road],
     [kind |-> "street_type", alts |-> <<w_blvd, w_boulevard>>, repl |-> w_boulevard],
     [kind |-> "street_type", alts |-> <<w_dr, w_drive>>, repl |-> w_drive],
     [kind |-> "street_type", alts |-> <<w_ct, w_court>>, repl |-> w_court],
     [kind |-> "street_type", alts |-> <<w_ln, w_lane>>, repl |-> w_lane] >>

\* The suite/unit substitutions.
MarkerRules ==
  << [kind |-> "marker", alts |-> <<w_ste, w_suite>>, repl |-> w_ste \o <<" ">>],
     [kind |-> "marker", alts |-> <<w_unit, w_apt, w_apartment>>,
      repl |-> w_unit \o <<" ">>] >>

\* The comma/whitespace collapse.
SepRule == [kind |-> "sep", alts |-> <<>>, repl |-> <<" ">>]

RECURSIVE ApplyRules(_, _)
\* The re.sub calls of a rule list, one after the other.
ApplyRules(rules, s) ==
  IF rules = <<>> THEN s ELSE ApplyRules(Tail(rules), re_sub(Head(rules), s))

\* normalize_address(address)
normalize_address(address) ==
  IF ~Truthy(address) THEN <<>>
  ELSE LET n0 == strip(lower(address))
           n1 == ApplyRules(StreetTypeRules, n0)
           n2 == ApplyRules(MarkerRules, n1)
           n3 == re_sub(SepRule, n2)
       IN strip(n3)

\* The markers of get_base_address's pattern, in the order of its alternation.
BaseMarkers == <<w_ste, w_suite, w_unit, w_apt, w_apartment>>

\* After the marker w found at position j: \s*\.?\s*[a-z0-9]+ matches.
BaseTailMatch(s, w, e) == w # <<>> /\ e <= Len(s) /\ isalnum(s[e])

\* (ste|suite|unit|apt|apartment)\s*\.?\s*[a-z0-9]+ matches at position j.
BaseMarkerTail(s, j, w) == BaseTailMatch(s, w, SkipMarkerTail(s, j + Len(w)))

BaseMatchFrom(s, j) == BaseMarkerTail(s, j, FirstAlt(s, j, BaseMarkers, FALSE))

\* \s*(ste|suite|unit|apt|apartment)\s*\.?\s*[a-z0-9]+.*$ matches at position p
\* of s (s already case-folded for re.IGNORECASE).  The classes \s, \. and
\* [a-z0-9] are disjoint, so the greedy choice is the only one; .*$ reaches the
\* end of a string that holds no line terminator.
BaseMatchAt(s, p) == BaseMatchFrom(s, SkipSpace(s, p))

RECURSIVE FirstBaseMatch(_, _)
\* The leftmost position from p on where the pattern matches, 0 when none.
FirstBaseMatch(s, p) ==
  IF p > Len(s) THEN 0
  ELSE IF BaseMatchAt(s, p) THEN p
  ELSE FirstBaseMatch(s, p + 1)

\* The text of s before position p, all of s when p = 0.
Before(s, p) == IF p = 0 THEN s ELSE SubSeq(s, 1, p - 1)

\* re.sub(pattern, '', address_str, flags=re.IGNORECASE): the leftmost match
\* runs to the end of the string, so what is left is the text before it.
StripSuite(s) == Before(s, FirstBaseMatch(lower(s), 1))

\* base.lower() if base else ""
LowerOrEmpty(base) == IF base # <<>> THEN lower(base) ELSE <<>>

\* get_base_address(address)
get_base_address(address) ==
  IF ~Truthy(address) THEN <<>> ELSE LowerOrEmpty(strip(StripSuite(address)))

\* The separator of the composite key.
KeySep == <<"|">>

\* The four components create_location_key computes before joining them.
KeyComponents(provider, use_base_address) ==
  LET address == IF use_base_address
                 THEN get_base_address(Or(Get(provider, "address"), <<>>))
                 ELSE normalize_address(Or(Get(provider, "address"), <<>>))
      city == strip(lower(Or(Get(provider, "city"), <<>>)))
      state == strip(lower(Or(Get(provider, "state"), <<>>)))
      zip_code == strip(Or(Get(provider, "zip"), <<>>))
  IN <<address, city, state, zip_code>>

\* create_location_key(provider, use_base_address): f"{address}|{city}|{state}|{zip_code}"
create_location_key(provider, use_base_address) ==
  Join(KeySep, KeyComponents(provider, use_base_address))

\* get_full_address(provider)
get_full_address(provider) ==
  LET part(k) == IF Truthy(Get(provider, k)) THEN <<provider[k]>> ELSE <<>>
  IN Join(<<",", " ">>, part("address") \o part("city") \o part("state") \o part("zip"))

(***************************************************************************)
(* Inputs: provider records, input files, command lines                    *)
(***************************************************************************)
\* Most records an input file holds.
MaxRecords == 3

s_null == <<"n", "u", "l", "l">>
s_goleta == <<"G", "o", "l", "e", "t", "a">>
s_ca == <<"C", "A">>
s_zip == <<"9", "3", "1", "1", "7">>
s_main == <<"1", "2", "3", " ", "M", "a", "i", "n", " ", "S", "t">>
s_main_upper == <<"1", "2", "3", " ", "M", "A", "I", "N", " ", "S", "T", ".">>
s_celeste == <<"9", " ", "C", "e", "l", "e", "s", "t", "e">>

\* " Ste <id>" appended to a street address.
WithSuite(street, id) == street \o <<" ", "S", "t", "e", " ">> \o id

\* A provider record of the input: a dict holding the given fields.
Provider(name, fields) ==
  [k \in {"name"} \cup DOMAIN fields |-> IF k = "name" THEN name ELSE fields[k]]

Place == [city |-> s_goleta, state |-> s_ca, zip |-> s_zip]

\* The records input files are made of: two street addresses, each bare and
\* with a suite, the first one also in another spelling, a record whose
\* address is the "null" sentinel and a record with no address.
ProviderPool ==
  { Provider(<<"A">>, [address |-> s_main, county |-> <<"S", "B">>, phone |-> <<"1">>,
                       website |-> <<"a", ".", "x">>, distance_miles |-> <<"2">>] @@ Place),
    Provider(<<"B">>, [address |-> WithSuite(s_main, <<"2">>), phone |-> <<"2">>,
                       website |-> None] @@ Place),
    Provider(<<"C">>, [address |-> s_celeste, phone |-> <<"3">>] @@ Place),
    Provider(<<"D">>, [address |-> WithSuite(s_celeste, <<"2">>), phone |-> <<"4">>] @@ Place),
    Provider(<<"E">>, [address |-> s_main_upper, city |-> lower(s_goleta), state |-> s_ca,
                       zip |-> s_zip, phone |-> <<"5">>]),
    Provider(<<"N">>, [address |-> s_null, phone |-> s_null] @@ Place),
    Provider(<<"M">>, [phone |-> <<"6">>] @@ Place) }

c_primary_care == <<"p", "r", "i", "m", "a", "r", "y", "_", "c", "a", "r", "e">>
c_dental == <<"d", "e", "n", "t", "a", "l">>

\* Sequences of at most n pool records.
RecordSeqs(n) == UNION {[1..k -> ProviderPool] : k \in 0..n}

\* The parsed inputs: the records split over two categories, in order.
InputData ==
  { [meta |-> <<"m">>,
     grouped_providers |-> << <<c_primary_care, SubSeq(rs, 1, k)>>,
                              <<c_dental, SubSeq(rs, k + 1, Len(rs))>> >>]
      : <<rs, k>> \in {x \in RecordSeqs(MaxRecords) \X (0..MaxRecords) : x[2] <= Len(x[1])} }
    \cup {[meta |-> <<"m">>]}

\* What a path of the file system holds.
NoFile == [kind |-> "missing"]
InvalidJson == [kind |-> "invalid_json"]
JsonList == [kind |-> "json", type |-> "list"]
JsonDict(d) == [kind |-> "json", type |-> "dict", value |-> d]

FileContents == {NoFile, InvalidJson, JsonList} \cup {JsonDict(d) : d \in InputData}

DefaultInputFile == "ucship_anthem_providers_grouped_2026-01-10.json"
DefaultOutputFile == "ucship_anthem_providers_by_address.json"
Paths == {DefaultInputFile, DefaultOutputFile, "in.json", "out.json"}

\* Third command-line arguments.
Flags == {<<"B", "a", "s", "e">>, <<"n", "o">>}

\* sys.argv
CommandLines ==
  { <<"prog">>, <<"prog", "in.json">>, <<"prog", "in.json", "out.json">>,
    <<"prog", "in.json", "">> }
    \cup { <<"prog", "in.json", "out.json", f>> : f \in Flags }

(***************************************************************************)
(* group_providers_by_address                                              *)
(***************************************************************************)
\* provider.copy() with provider_with_category['original_category'] = category
WithCategory(provider, category) ==
  [k \in DOMAIN provider \cup {"original_category"} |->
     IF k = "original_category" THEN category ELSE provider[k]]

\* create_location_key on the tagged records of the pool, tabulated: the
\* function is pure, so the grouping loop reads its value from the table.
LocationKeyOf ==
  [p \in {WithCategory(q, c) : q \in ProviderPool, c \in {c_primary_care, c_dental}},
   use_base_address \in BOOLEAN |-> create_location_key(p, use_base_address)]

RECURSIVE ExtractCategory(_, _)
\* The inner loop: the providers of one category, in order, each tagged.
ExtractCategory(category, providers) ==
  IF providers = <<>> THEN <<>>
  ELSE <<WithCategory(Head(providers), category)>>
         \o ExtractCategory(category, Tail(providers))

RECURSIVE ExtractAll(_)
\* The outer loop over data.get('grouped_providers', {}).items(); a dict is
\* the sequence of its (key, value) items in insertion order.
ExtractAll(items) ==
  IF items = <<>> THEN <<>>
  ELSE ExtractCategory(Head(items)[1], Head(items)[2]) \o ExtractAll(Tail(items))

\* location_groups[location_key].append(provider) on a defaultdict(list),
\* kept as the sequence of its items in insertion order.
AppendToGroup(groups, location_key, provider) ==
  IF \E i \in DOMAIN groups : groups[i][1] = location_key
  THEN [i \in DOMAIN groups |->
          IF groups[i][1] = location_key
          THEN <<location_key, Append(groups[i][2], provider)>>
          ELSE groups[i]]
  ELSE Append(groups, <<location_key, <<provider>>>>)

RECURSIVE GroupLoop(_, _, _)
\* The loop that fills location_groups from all_providers.
GroupLoop(all_providers, groups, use_base_address) ==
  IF all_providers = <<>> THEN groups
  ELSE GroupLoop(Tail(all_providers),
                 AppendToGroup(groups,
                               LocationKeyOf[Head(all_providers), use_base_address],
                               Head(all_providers)),
                 use_base_address)

RECURSIVE InsertByKey(_, _)
\* One step of a stable sort of <<key, value>> pairs: x goes after every
\* element whose key is not greater.
InsertByKey(s, x) ==
  IF s = <<>> THEN <<x>>
  ELSE IF StrLess(x[1], Head(s)[1]) THEN <<x>> \o s
  ELSE <<Head(s)>> \o InsertByKey(Tail(s), x)

RECURSIVE SortByKey(_)
\* sorted() / list.sort() of <<key, value>> pairs on the key; stable.
SortByKey(s) ==
  IF s = <<>> THEN <<>>
  ELSE InsertByKey(SortByKey(SubSeq(s, 1, Len(s) - 1)), s[Len(s)])

\* The values of a sequence of <<key, value>> pairs.
Values(pairs) == [i \in DOMAIN pairs |-> pairs[i][2]]

\* The location_entry built for one (location_key, providers) item.
LocationEntryOf(providers, first_provider) ==
  [location |->
     [address |-> GetDefault(first_provider, "address", <<>>),
      city |-> GetDefault(first_provider, "city", <<>>),
      state |-> GetDefault(first_provider, "state", <<>>),
      zip |-> GetDefault(first_provider, "zip", <<>>),
      county |-> GetDefault(first_provider, "county", <<>>),
      full_address |-> get_full_address(first_provider),
      phone |-> GetDefault(first_provider, "phone", <<>>),
      website |-> Get(first_provider, "website"),
      distance_miles |-> Get(first_provider, "distance_miles")],
   provider_count |-> Len(providers),
   providers |-> providers]

\* A slip: the representative is the last provider of the bucket.
LocationEntryFromLast(providers) == LocationEntryOf(providers, providers[Len(providers)])

\* first_provider = providers[0]
LocationEntry(providers) == LocationEntryOf(providers, providers[1])

\* The loop over sorted(location_groups.items()).
EntriesOf(items) == [i \in DOMAIN items |-> LocationEntry(items[i][2])]

BuildEntries(groups) == EntriesOf(SortByKey(groups))

\* A slip: the final sort left out.
NoSortByFullAddress(entries) == entries

\* grouped_by_location.sort(key=lambda x: x['location']['full_address'])
SortByFullAddress(entries) ==
  Values(SortByKey([i \in DOMAIN entries |->
                      <<entries[i].location.full_address, entries[i]>>]))

\* A slip: only the records that hold an address are counted.
TotalProvidersWithAddress(all_providers) ==
  Cardinality({i \in DOMAIN all_providers : Truthy(Get(all_providers[i], "address"))})

\* meta_grouped.total_providers: len(all_providers)
TotalProviders(all_providers) == Len(all_providers)

\* The output_data structure.
OutputData(data, all_providers, grouped_by_location, use_base_address) ==
  [meta |-> GetDefault(data, "meta", <<>>),
   meta_grouped |->
     [total_locations |-> Len(grouped_by_location),
      total_providers |-> TotalProviders(all_providers),
      grouping_method |-> IF use_base_address THEN "by_base_address"
                          ELSE "by_address_location"],
   locations |-> grouped_by_location]

\* The grouping of all_providers: buckets, entries, final sort.
GroupedByLocation(all_providers, use_base_address) ==
  SortByFullAddress(BuildEntries(GroupLoop(all_providers, <<>>, use_base_address)))

\* output_data for the providers extracted from data.
GroupProviders(data, all_providers, use_base_address) ==
  OutputData(data, all_providers, GroupedByLocation(all_providers, use_base_address),
             use_base_address)

\* The value group_providers_by_address builds and returns for the parsed
\* input data (a dict).
group_providers_by_address(data, use_base_address) ==
  GroupProviders(data, ExtractAll(GetDefault(data, "grouped_providers", <<>>)),
                 use_base_address)

(***************************************************************************)
(* main of group_by_address.py: one run of the script                      *)
(***************************************************************************)
\* The values of the third argument that select base-address grouping.
BaseFlags == {<<"t", "r", "u", "e">>, <<"1">>, <<"y", "e", "s">>, <<"b", "a", "s", "e">>}

\* The locals main sets from sys.argv.
ArgInputFile(args) == IF Len(args) > 1 THEN args[2] ELSE DefaultInputFile

ArgOutputFile(args) == IF Len(args) > 2 THEN args[3] ELSE DefaultOutputFile

ArgUseBase(args) == IF Len(args) > 3 THEN lower(args[4]) \in BaseFlags ELSE FALSE

\* What the try block of main prints after group_providers_by_address
\* returned: the average divides by total_locations, and a ZeroDivisionError
\* lands in the last except clause.
Summary(output_data) ==
  IF output_data.meta_grouped.total_locations = 0
  THEN [printed |-> <<"GROUPING SUMMARY", "Total providers", "Total locations",
                      "Error: division by zero", "traceback">>,
        exit_code |-> 1]
  ELSE [printed |-> <<"GROUPING SUMMARY", "Total providers", "Total locations",
                      "Average providers per location", "Top 10 locations">>,
        exit_code |-> 0]

\* What group_providers_by_address prints when it writes the output file.
WrittenLines(output_file) ==
  IF output_file # "" THEN <<"[OK] Grouped", "[OK] Output written">> ELSE <<>>

\* The run from the return of group_providers_by_address on: the output file
\* is written, the summary printed.
MainGrouped(output_file, output_data, summary) ==
  /\ result' = output_data
  /\ fs' = IF output_file # ""
           THEN [fs EXCEPT ![output_file] = JsonDict(output_data)]
           ELSE fs
  /\ stdout' = WrittenLines(output_file) \o summary.printed
  /\ exit_code' = summary.exit_code

MainReturned(output_file, output_data) ==
  MainGrouped(output_file, output_data, Summary(output_data))

\* The run on what the input file holds.
MainOn(content, output_file, use_base_address) ==
  CASE content.kind = "missing" ->
         /\ stdout' = <<"Error: File not found">>
         /\ exit_code' = 1
         /\ UNCHANGED <<fs, result>>
    [] content.kind = "invalid_json" ->
         /\ stdout' = <<"Error: Invalid JSON">>
         /\ exit_code' = 1
         /\ UNCHANGED <<fs, result>>
    [] content.kind = "json" /\ content.type # "dict" ->
         /\ stdout' = <<"Error: no attribute get", "traceback">>
         /\ exit_code' = 1
         /\ UNCHANGED <<fs, result>>
    [] content.kind = "json" /\ content.type = "dict" ->
         MainReturned(output_file, group_providers_by_address(content.value, use_base_address))

\* python group_by_address.py args
Main(args) ==
  /\ pc = "start"
  /\ pc' = "done"
  /\ argv' = args
  /\ UNCHANGED <<call, appVars>>
  /\ MainOn(fs[ArgInputFile(args)], ArgOutputFile(args), ArgUseBase(args))

Init ==
  /\ call = [fn |-> "none"]
  /\ pc = "start"
  /\ argv = <<>>
  /\ exit_code = -1
  /\ stdout = <<>>
  /\ result = None
  /\ AppIdle
  /\ \E c \in FileContents :
       fs = [f \in Paths |-> IF f \in {DefaultInputFile, "in.json"} THEN c ELSE NoFile]

Next == \E args \in CommandLines : Main(args)

Spec == Init /\ [][Next]_vars

(***************************************************************************)
(* The address functions called on their own: a behaviour is one call      *)
(***************************************************************************)
\* Most tokens an address string is made of.
MaxTokens == 3

\* The pieces address strings are concatenated from.
Tokens == {w_st, <<"S", "t">>, w_street, w_rd, w_ste, w_apt, s_null,
           <<"5">>, <<".">>, <<" ">>, <<",">>}

TokenSeqs == UNION {[1..k -> Tokens] : k \in 0..MaxTokens}

RECURSIVE Concat(_)
Concat(ts) == IF ts = <<>> THEN <<>> ELSE Head(ts) \o Concat(Tail(ts))

\* The records create_location_key is called on: every field missing, the
\* "null" sentinel, or a value, some holding the separator.
KeyRecords ==
  { [k \in {k \in DOMAIN f : f[k] # <<"<missing>">>} |-> f[k]] :
      f \in [address : {<<"<missing>">>, s_null, <<"a">>, <<"a", "|">>, WithSuite(s_main, <<"2">>)},
             city : {<<"<missing>">>, s_null, <<"|">>, <<"B", " ">>},
             state : {<<"<missing>">>, None, s_ca},
             zip : {<<"<missing>">>, s_null, <<" ", "9">>}] }

\* normalize_address(address) called on an address string.
CallNormalizeAddress(ts) ==
  /\ pc = "lib" /\ call.fn = "none"
  /\ call' = [fn |-> "normalize_address", tokens |-> ts, arg |-> Concat(ts),
              ret |-> normalize_address(Concat(ts))]
  /\ UNCHANGED <<fs, pc, argv, exit_code, stdout, result, appVars>>

\* get_base_address(address) called on an address string.
CallGetBaseAddress(ts) ==
  /\ pc = "lib" /\ call.fn = "none"
  /\ call' = [fn |-> "get_base_address", tokens |-> ts, arg |-> Concat(ts),
              ret |-> get_base_address(Concat(ts))]
  /\ UNCHANGED <<fs, pc, argv, exit_code, stdout, result, appVars>>

\* create_location_key(provider, use_base_address) called on a record.
CallCreateLocationKey(provider, use_base_address) ==
  /\ pc = "lib" /\ call.fn = "none"
  /\ call' = [fn |-> "create_location_key", arg |-> provider,
              use_base_address |-> use_base_address,
              ret |-> create_location_key(provider, use_base_address)]
  /\ UNCHANGED <<fs, pc, argv, exit_code, stdout, result, appVars>>

InitFn ==
  /\ call = [fn |-> "none"]
  /\ pc = "lib"
  /\ argv = <<>>
  /\ exit_code = -1
  /\ stdout = <<>>
  /\ result = None
  /\ AppIdle
  /\ fs = [f \in Paths |-> NoFile]

NextFn ==
  \/ \E ts \in TokenSeqs : CallNormalizeAddress(ts)
  \/ \E ts \in TokenSeqs : CallGetBaseAddress(ts)
  \/ \E p \in KeyRecords, m \in BOOLEAN : CallCreateLocationKey(p, m)

SpecFn == InitFn /\ [][NextFn]_vars

(***************************************************************************)
(* extract_dental_data.py: one run of the script                           *)
(***************************************************************************)
\* Most records the Delta Dental input file holds.
MaxDentalRecords == 2

DentalInputFile == "ucship_delta_dental_providers_2026-01-10.json"

s_a_st == <<"1", " ", "A", " ", "S", "t">>
s_b_rd == <<"2", " ", "B", " ", "R", "d">>
s_ortho == <<"O", "r", "t", "h", "o">>
s_dental == <<"D", "e", "n", "t", "a", "l">>
s_dental_provider == <<"D", "e", "n", "t", "a", "l", " ", "P", "r", "o", "v", "i", "d", "e", "r">>

\* The records of the Delta Dental file: values, the "null" sentinel, JSON
\* null, the empty string and missing fields, at two street addresses.
DentalPool ==
  { [name |-> <<"P">>, specialty |-> s_ortho, phone |-> <<"1">>, website |-> <<"a", ".", "x">>,
     address |-> s_a_st, city |-> s_goleta, state |-> s_ca, zip |-> s_zip],
    [name |-> <<"Q">>, specialty |-> s_null, phone |-> s_null, website |-> s_null,
     address |-> WithSuite(s_a_st, <<"2">>), city |-> s_goleta, state |-> s_ca, zip |-> s_zip],
    [name |-> <<"R">>, specialty |-> s_null, phone |-> <<"2">>, website |-> None,
     address |-> s_a_st, city |-> s_goleta, state |-> s_ca, zip |-> s_zip],
    [name |-> <<"S">>, phone |-> s_null,
     address |-> s_a_st, city |-> s_goleta, state |-> s_ca, zip |-> s_zip],
    [name |-> <<"T">>, phone |-> <<"3">>, address |-> s_null, city |-> s_goleta],
    [name |-> <<"U">>, phone |-> <<"4">>, website |-> s_null, city |-> s_goleta],
    [name |-> s_null, specialty |-> s_ortho, website |-> s_null, address |-> s_b_rd],
    [name |-> <<"W">>, specialty |-> <<>>, phone |-> <<>>, address |-> s_b_rd, city |-> s_null] }

\* What the input file of the script holds.
DentalFileContents ==
  {NoFile, InvalidJson, JsonDict([meta |-> <<"m">>])}
    \cup {JsonDict([providers |-> ps]) :
            ps \in UNION {[1..k -> DentalPool] : k \in 0..MaxDentalRecords}}

\* base.strip().lower() if base else ''
DentalBase(base) == IF base # <<>> THEN lower(strip(base)) ELSE <<>>

\* get_base_address(address_str) of extract_dental_data.py
dental_get_base_address(address_str) ==
  IF ~Truthy(address_str) \/ address_str = s_null THEN <<>>
  ELSE DentalBase(StripSuite(address_str))

\* create_location_key(provider, use_base_address=True) of
\* extract_dental_data.py, the only way the script calls it.
dental_create_location_key(provider) ==
  Join(KeySep, << dental_get_base_address(Or(Get(provider, "address"), <<>>)),
                  strip(lower(Or(Get(provider, "city"), <<>>))),
                  strip(lower(Or(Get(provider, "state"), <<>>))),
                  strip(Or(Get(provider, "zip"), <<>>)) >>)

\* One part of get_full_address: the field when it is truthy and not 'null'.
DentalPart(provider, k) ==
  IF Truthy(Get(provider, k)) /\ provider[k] # s_null THEN <<provider[k]>> ELSE <<>>

\* ', '.join(parts) if parts else None
JoinOrNone(parts) == IF parts # <<>> THEN Join(<<",", " ">>, parts) ELSE None

\* get_full_address(provider) of extract_dental_data.py
dental_get_full_address(provider) ==
  JoinOrNone(DentalPart(provider, "address") \o DentalPart(provider, "city")
               \o DentalPart(provider, "state") \o DentalPart(provider, "zip"))

RECURSIVE DentalGroupLoop(_, _)
\* The loop that fills grouped: a provider without a valid address is
\* skipped, the others are appended under their base-address key.
DentalGroupLoop(providers, groups) ==
  IF providers = <<>> THEN groups
  ELSE IF ~Truthy(Get(Head(providers), "address")) \/ Head(providers).address = s_null
  THEN DentalGroupLoop(Tail(providers), groups)
  ELSE DentalGroupLoop(Tail(providers),
                       AppendToGroup(groups, dental_create_location_key(Head(providers)),
                                     Head(providers)))

\* if d[k] == 'null': d[k] = None
NullToNone(v) == IF v = s_null THEN None ELSE v

\* x or None
OrNone(v) == IF Truthy(v) THEN v ELSE None

\* The location dict built from the first provider of a group.
DentalLocation(first_provider, full_address) ==
  [address |-> Or(Get(first_provider, "address"), <<>>),
   city |-> Or(Get(first_provider, "city"), <<>>),
   state |-> Or(Get(first_provider, "state"), <<>>),
   zip |-> Or(Get(first_provider, "zip"), <<>>),
   full_address |-> full_address,
   phone |-> NullToNone(OrNone(Get(first_provider, "phone"))),
   county |-> None]

\* formatted_provider for one provider of a group.
FormattedProvider(p) ==
  [name |-> Or(Get(p, "name"), s_dental_provider),
   specialty |-> Or(Get(p, "specialty"), s_dental),
   phone |-> NullToNone(OrNone(Get(p, "phone"))),
   website |-> NullToNone(OrNone(Get(p, "website")))]

FormattedProviders(providers) == [j \in DOMAIN providers |-> FormattedProvider(providers[j])]

\* The entry appended to locations for one group.
DentalEntry(providers) ==
  [location |-> DentalLocation(providers[1], dental_get_full_address(providers[1])),
   provider_count |-> Len(providers),
   providers |-> FormattedProviders(providers)]

RECURSIVE DentalLocations(_)
\* The loop over grouped.items(): a group whose first provider has no full
\* address is skipped.
DentalLocations(groups) ==
  IF groups = <<>> THEN <<>>
  ELSE IF ~Truthy(dental_get_full_address(Head(groups)[2][1]))
  THEN DentalLocations(Tail(groups))
  ELSE <<DentalEntry(Head(groups)[2])>> \o DentalLocations(Tail(groups))

\* The script on what its input file holds: an uncaught exception ends the
\* process with a traceback and exit status 1.
ExtractOn(content) ==
  IF content.kind = "json" /\ content.type = "dict" /\ "providers" \in DOMAIN content.value
  THEN /\ result' = DentalLocations(DentalGroupLoop(content.value.providers, <<>>))
       /\ stdout' = <<"const locationsData = ">>
       /\ exit_code' = 0
  ELSE /\ result' = result
       /\ stdout' = <<"traceback">>
       /\ exit_code' = 1

\* python extract_dental_data.py
ExtractDentalData ==
  /\ pc = "start"
  /\ pc' = "done"
  /\ ExtractOn(fs[DentalInputFile])
  /\ UNCHANGED <<call, fs, argv, appVars>>

InitDental ==
  /\ call = [fn |-> "none"]
  /\ pc = "start"
  /\ argv = <<"prog">>
  /\ exit_code = -1
  /\ stdout = <<>>
  /\ result = None
  /\ AppIdle
  /\ \E c \in DentalFileContents : fs = [f \in {DentalInputFile} |-> c]

NextDental == ExtractDentalData

SpecDental == InitDental /\ [][NextDental]_vars

(***************************************************************************)
(* Back_End/app.py: analyze_health_need, one call a behaviour              *)
(***************************************************************************)
c_urgent_care == <<"u", "r", "g", "e", "n", "t", "_", "c", "a", "r", "e">>
c_optometrist == <<"o", "p", "t", "o", "m", "e", "t", "r", "i", "s", "t">>
c_mental_health == <<"m", "e", "n", "t", "a", "l", "_", "h", "e", "a", "l", "t", "h">>

\* Category = Literal["dental", "primary_care", ...]
Category == {c_dental, c_primary_care, c_urgent_care, c_optometrist, c_mental_health}

\* Words the classification provider answers with: the labels, a label in
\* other letter case, words outside the set, the empty string.
ReplyWords ==
  Category \cup {s_dental, <<"U", "R", "G", "E", "N", "T", "_", "C", "A", "R", "E">>,
                 <<"d", "e", "n", "t", "i", "s", "t">>, s_null, <<>>}

Pads == {<<>>, <<" ">>}

\* data["choices"][0]["message"]["content"] of a reply: a string, or null.
ReplyContents == {a \o w \o b : a \in Pads, w \in ReplyWords, b \in Pads} \cup {None}

\* The JSON body of a reply: a completion with its content, a body without
\* "choices", one with an empty "choices", or no JSON at all.
ReplyBodies ==
  {[kind |-> "completion", content |-> c] : c \in ReplyContents}
    \cup {[kind |-> "no_choices"], [kind |-> "empty_choices"], [kind |-> "invalid_json"]}

\* What client.post gives: a response, or httpx.TimeoutException.
Replies ==
  {[kind |-> "response", status_code |-> st, body |-> b] : st \in {200, 401}, b \in ReplyBodies}
    \cup {[kind |-> "timeout"]}

RequestTexts == {<<"t", "o", "o", "t", "h">>, <<>>}

\* The validation of provider_type: primary_care when it is no label.
ValidProviderType(provider_type) ==
  IF provider_type \notin Category THEN c_primary_care ELSE provider_type

\* The try block on a response with status 200: the content is read with
\* data["choices"][0]["message"]["content"].strip().lower(); a KeyError,
\* IndexError, AttributeError or JSON error lands in except Exception.
AnalyzeCompletion(body) ==
  IF body.kind = "completion" /\ body.content # None
  THEN [status_code |-> 200, providerType |-> ValidProviderType(lower(strip(body.content)))]
  ELSE [status_code |-> 500, detail |-> "Error analyzing request"]

\* The try block: the HTTPException raised for a status other than 200 is
\* itself caught by except Exception and becomes a 500.
AnalyzeReply(reply) ==
  IF reply.kind = "timeout"
  THEN [status_code |-> 504, detail |-> "Request timeout. Please try again."]
  ELSE IF reply.status_code # 200
  THEN [status_code |-> 500, detail |-> "Error analyzing request"]
  ELSE AnalyzeCompletion(reply.body)

\* analyze_health_need(request) when the provider answers with reply.
analyze_health_need(key_set, reply) ==
  IF ~key_set THEN [status_code |-> 500, detail |-> "OPENAI_API_KEY is not set"]
  ELSE AnalyzeReply(reply)

\* POST /api/analyze-health-need
CallAnalyzeHealthNeed(key_set, text, reply) ==
  /\ pc = "api" /\ call.fn = "none"
  /\ call' = [fn |-> "analyze_health_need", key_set |-> key_set, text |-> text,
              reply |-> reply, ret |-> analyze_health_need(key_set, reply)]
  /\ UNCHANGED <<fs, pc, argv, exit_code, stdout, result, appVars>>

InitAnalyze ==
  /\ call = [fn |-> "none"]
  /\ pc = "api"
  /\ argv = <<>>
  /\ exit_code = -1
  /\ stdout = <<>>
  /\ result = None
  /\ fs = <<>>
  /\ AppIdle

NextAnalyze ==
  \E key_set \in BOOLEAN, text \in RequestTexts, reply \in Replies :
    CallAnalyzeHealthNeed(key_set, text, reply)

SpecAnalyze == InitAnalyze /\ [][NextAnalyze]_vars

(***************************************************************************)
(* Back_End/app.py: the cache and the /providers endpoint                  *)
(***************************************************************************)
CACHE_TTL_SECONDS == 60

\* Most /providers requests the server handles in a behaviour.
MaxRequests == 2

\* The latest time of the event loop's clock.
MaxTime == 61

\* What the clock advances by between two steps of the event loop: the
\* lifetime of a cache item, or a second more.
TimeSteps == {CACHE_TTL_SECONDS, CACHE_TTL_SECONDS + 1}

GOOGLE_MAPS_API_KEY == <<"k">>

CATEGORY_SEARCH ==
  [c \in Category |->
     CASE c = c_dental -> [type |-> "dentist", keyword |-> "dental clinic"]
       [] c = c_primary_care -> [type |-> "doctor", keyword |-> "primary care physician"]
       [] c = c_urgent_care -> [type |-> "hospital", keyword |-> "urgent care"]
       [] c = c_optometrist -> [type |-> "optometrist", keyword |-> "optometrist"]
       [] c = c_mental_health ->
            [type |-> "doctor", keyword |-> "therapy psychologist counseling mental health"]]

\* Coordinates are counted in units of 0.00001 degree.
UserLats == {3441000, 3441004}

UserLng == -11984000

\* The query parameters of a /providers request: two positions that round to
\* the same coordinates, the details asked for at the first of them.
Queries ==
  {q \in [category : {c_dental}, user_lat : UserLats, user_lng : {UserLng},
          radius_meters : {5000}, open_now : {None}, limit : {1},
          include_details : BOOLEAN] :
     q.include_details => q.user_lat = 3441000}

\* f"{x:.4f}": the coordinate rounded to 0.0001 degree.
Round4(x) == (x + 5) \div 10

\* ck = f"{category}:{user_lat:.4f},{user_lng:.4f}:{radius_meters}:{open_now}:{limit}:{include_details}"
CacheKey(q) ==
  <<q.category, Round4(q.user_lat), Round4(q.user_lng), q.radius_meters, q.open_now,
    q.limit, q.include_details>>

\* A cache item that lives a second longer than CACHE_TTL_SECONDS.
ExpiredLate(item, t) == (t - item[1]) > CACHE_TTL_SECONDS + 1

\* (now - ts) > CACHE_TTL_SECONDS for the cache item (ts, val) at time t.
Expired(item, t) == (t - item[1]) > CACHE_TTL_SECONDS

\* What cache_get(key) returns at time t.
cache_get(cache, key, t) ==
  IF key \notin DOMAIN cache THEN None
  ELSE IF Expired(cache[key], t) THEN None
  ELSE cache[key][2]

\* _CACHE.pop(key, None)
CachePop(cache, key) == [k \in DOMAIN cache \ {key} |-> cache[k]]

\* _CACHE after cache_get(key) at time t: an expired item is removed.
CacheAfterGet(cache, key, t) ==
  IF key \in DOMAIN cache /\ Expired(cache[key], t) THEN CachePop(cache, key) ELSE cache

\* _CACHE after cache_set(key, value) at time t.
cache_set(cache, key, value, t) ==
  [k \in DOMAIN cache \cup {key} |-> IF k = key THEN <<t, value>> ELSE cache[k]]

\* Items of a nearby-search result: with and without a location.
PlaceA == [place_id |-> "A", geometry |-> [location |-> [lat |-> 3441100, lng |-> UserLng]]]
PlaceB == [place_id |-> "B", geometry |-> [location |-> [lat |-> 3441200, lng |-> UserLng]]]
PlaceNoLocation == [place_id |-> "N"]

\* What the nearby search gives: a JSON body with its status, or an httpx
\* error.
NearbyReplies ==
  { [kind |-> "response", status |-> "OK", results |-> <<PlaceA, PlaceB>>],
    [kind |-> "response", status |-> "OK", results |-> <<PlaceNoLocation, PlaceA>>],
    [kind |-> "response", status |-> "ZERO_RESULTS", results |-> <<>>],
    [kind |-> "response", status |-> "OVER_QUERY_LIMIT", results |-> <<>>],
    [kind |-> "error"] }

\* What a details call gives.
DetailsReplies ==
  { [kind |-> "response", status |-> "OK",
     result |-> [formatted_phone_number |-> <<"1">>, website |-> <<"a", ".", "x">>]],
    [kind |-> "response", status |-> "NOT_FOUND"],
    [kind |-> "error"] }

\* The location of an item when it has both coordinates.
HasLocation(item) == "geometry" \in DOMAIN item /\ "location" \in DOMAIN item.geometry

\* ProviderOut(...) for one item of the results.
ProviderOut(item, category) ==
  [place_id |-> item.place_id, category |-> category,
   lat |-> item.geometry.location.lat, lng |-> item.geometry.location.lng,
   phone |-> None, website |-> None]

RECURSIVE ProvidersOut(_, _)
\* The loop over results[:limit]: an item without a location is skipped.
ProvidersOut(items, category) ==
  IF items = <<>> THEN <<>>
  ELSE IF ~HasLocation(Head(items)) THEN ProvidersOut(Tail(items), category)
  ELSE <<ProviderOut(Head(items), category)>> \o ProvidersOut(Tail(items), category)

\* results[:limit]
FirstItems(results, limit) == SubSeq(results, 1, IF Len(results) < limit THEN Len(results) ELSE limit)

\* places_details: the result of the reply when its status is OK, {} otherwise.
DetailsOf(d) == IF d.status = "OK" THEN d.result ELSE <<>>

\* add_details(p) with the details r.
WithDetails(p, r) ==
  [p EXCEPT !.phone = GetDefault(r, "formatted_phone_number", None),
            !.website = GetDefault(r, "website", None)]

\* ProvidersResponse(providers=providers_out): the model object, which is
\* truthy whatever its list holds.
ProvidersResponse(providers_out) == <<"ProvidersResponse", providers_out>>

\* The calls to the cache and to the places provider, as the log keeps them.
GetEvent(id, ck, ret) == [op |-> "cache_get", key |-> ck, at |-> now, by |-> id, ret |-> ret]

SetEvent(ck, value) == [op |-> "cache_set", key |-> ck, at |-> now, value |-> value]

NearbyEvent(id, q) ==
  [op |-> "nearby", key |-> CacheKey(q), at |-> now, by |-> id,
   type |-> CATEGORY_SEARCH[q.category].type]

DetailsEvents(id, providers_out) ==
  [j \in DOMAIN providers_out |->
     [op |-> "details", key |-> requests[id].ck, at |-> now, by |-> id,
      place_id |-> providers_out[j].place_id]]

\* A request as the server holds it: its parameters, its cache key, where
\* its coroutine stands, and its response once it has one.
Request(q, ck, at, where, cached, response) ==
  [params |-> q, ck |-> ck, pc |-> where, cached |-> cached,
   providers_out |-> <<>>, response |-> response]

\* The request after cache_get(ck) returned cached: a truthy value is the
\* response, otherwise the nearby search is called.
ProvidersLookup(q, ck, id, cached) ==
  /\ _CACHE' = CacheAfterGet(_CACHE, ck, now)
  /\ IF cached # None
     THEN /\ requests' = Append(requests, Request(q, ck, now, "done", TRUE,
                                                  [status_code |-> 200, body |-> cached]))
          /\ log' = Append(log, GetEvent(id, ck, cached))
     ELSE /\ requests' = Append(requests, Request(q, ck, now, "nearby", FALSE, None))
          /\ log' = log \o <<GetEvent(id, ck, None), NearbyEvent(id, q)>>

\* providers(...) up to its first await.
ProvidersStart(q, id) ==
  IF ~Truthy(GOOGLE_MAPS_API_KEY) \/ q.category \notin DOMAIN CATEGORY_SEARCH
  THEN /\ requests' = Append(requests, Request(q, CacheKey(q), now, "done", FALSE,
                                               [status_code |-> 500]))
       /\ UNCHANGED <<_CACHE, log>>
  ELSE ProvidersLookup(q, CacheKey(q), id, cache_get(_CACHE, CacheKey(q), now))

\* GET /providers arrives and runs to its first await, or to its return.
ProvidersArrive(q) ==
  /\ pc = "serve"
  /\ Len(requests) < MaxRequests
  /\ ProvidersStart(q, Len(requests) + 1)
  /\ UNCHANGED <<call, fs, pc, argv, exit_code, stdout, result, now>>

\* The handler raises: the request ends with an error status and the cache
\* is not written.
Fail(id, status_code) ==
  /\ requests' = [requests EXCEPT ![id].pc = "done",
                                  ![id].response = [status_code |-> status_code]]
  /\ UNCHANGED <<_CACHE, log>>

\* resp = ProvidersResponse(providers=providers_out); cache_set(ck, resp); return resp
Respond(id, providers_out) ==
  /\ _CACHE' = cache_set(_CACHE, requests[id].ck, ProvidersResponse(providers_out), now)
  /\ requests' = [requests EXCEPT ![id].pc = "done", ![id].providers_out = providers_out,
                                  ![id].response = [status_code |-> 200,
                                                    body |-> ProvidersResponse(providers_out)]]
  /\ log' = Append(log, SetEvent(requests[id].ck, ProvidersResponse(providers_out)))

\* After the loop over the results: the details are fetched when asked for
\* and there is a provider, otherwise the response is cached and returned.
AfterNearby(id, providers_out) ==
  IF requests[id].params.include_details /\ providers_out # <<>>
  THEN /\ requests' = [requests EXCEPT ![id].pc = "details",
                                       ![id].providers_out = providers_out]
       /\ log' = log \o DetailsEvents(id, providers_out)
       /\ UNCHANGED _CACHE
  ELSE Respond(id, providers_out)

\* The nearby search of request id returns: the coroutine runs to its next
\* await, or to its end.
NearbyReturns(id, reply) ==
  /\ pc = "serve"
  /\ id \in DOMAIN requests
  /\ requests[id].pc = "nearby"
  /\ IF reply.kind = "error" THEN Fail(id, 500)
     ELSE IF reply.status \notin {"OK", "ZERO_RESULTS"} THEN Fail(id, 502)
     ELSE AfterNearby(id, ProvidersOut(FirstItems(reply.results, requests[id].params.limit),
                                       requests[id].params.category))
  /\ UNCHANGED <<call, fs, pc, argv, exit_code, stdout, result, now>>

\* providers_out after asyncio.gather of add_details, every call answered d.
DetailedProviders(providers_out, d) ==
  [j \in DOMAIN providers_out |-> WithDetails(providers_out[j], DetailsOf(d))]

\* The details calls of request id return.
DetailsReturn(id, d) ==
  /\ pc = "serve"
  /\ id \in DOMAIN requests
  /\ requests[id].pc = "details"
  /\ IF d.kind = "error" THEN Fail(id, 500)
     ELSE Respond(id, DetailedProviders(requests[id].providers_out, d))
  /\ UNCHANGED <<call, fs, pc, argv, exit_code, stdout, result, now>>

\* Time passes on the event loop's clock.
Tick(d) ==
  /\ pc = "serve"
  /\ now + d <= MaxTime
  /\ now' = now + d
  /\ UNCHANGED <<call, fs, pc, argv, exit_code, stdout, result, _CACHE, requests, log>>

InitApp ==
  /\ call = [fn |-> "none"]
  /\ pc = "serve"
  /\ argv = <<>>
  /\ exit_code = -1
  /\ stdout = <<>>
  /\ result = None
  /\ fs = <<>>
  /\ AppIdle

NextApp ==
  \/ \E d \in TimeSteps : Tick(d)
  \/ \E q \in Queries : ProvidersArrive(q)
  \/ \E id \in 1..MaxRequests, reply \in NearbyReplies : NearbyReturns(id, reply)
  \/ \E id \in 1..MaxRequests, d \in DetailsReplies : DetailsReturn(id, d)

SpecApp == InitApp /\ [][NextApp]_vars

(***************************************************************************)
(* Properties of a run of the script                                       *)
(***************************************************************************)
\* The input file of the run (no run writes to its input path).
InputOf == fs[ArgInputFile(argv)]

\* The run reached the grouping: the input file held a JSON object.
Grouped == pc = "done" /\ InputOf.kind = "json" /\ InputOf.type = "dict"

RECURSIVE FlattenFrom(_, _)
FlattenFrom(items, c) ==
  IF c > Len(items) THEN <<>>
  ELSE [j \in 1..Len(items[c][2]) |->
          [k \in DOMAIN items[c][2][j] \cup {"original_category"} |->
             IF k = "original_category" THEN items[c][1] ELSE items[c][2][j][k]]]
       \o FlattenFrom(items, c + 1)

\* The records of the input in iteration order (categories in input order,
\* then the records of a category), each with its category.
InputRecords == FlattenFrom(GetDefault(InputOf.value, "grouped_providers", <<>>), 1)

\* The "usable address" predicate: present, not empty after trim, not "null".
UsableAddress(r) ==
  /\ "address" \in DOMAIN r
  /\ r.address # None
  /\ strip(r.address) # <<>>
  /\ r.address # s_null

Locations == result.locations

\* The grouping mode of the run.
UseBase == ArgUseBase(argv)

\* Occurrences of v in the sequence s.
Count(s, v) == Cardinality({i \in DOMAIN s : s[i] = v})

RECURSIVE SumProviderCount(_)
SumProviderCount(locs) ==
  IF locs = <<>> THEN 0 ELSE Head(locs).provider_count + SumProviderCount(Tail(locs))

\* C1: a record whose address is absent, empty or "null" is in no group and
\* is not counted in total_providers; an input of only such records gives
\* zero locations and total_providers = 0.
C1_UnusableExcluded ==
  Grouped =>
    /\ \A i \in DOMAIN Locations : \A j \in DOMAIN Locations[i].providers :
         UsableAddress(Locations[i].providers[j])
    /\ result.meta_grouped.total_providers =
         Cardinality({n \in DOMAIN InputRecords : UsableAddress(InputRecords[n])})
    /\ (\A n \in DOMAIN InputRecords : ~UsableAddress(InputRecords[n]))
         => Locations = <<>> /\ result.meta_grouped.total_providers = 0

\* C5: provider_count is the length of the group's providers list,
\* total_providers is the sum of provider_count over the groups, every input
\* record is in exactly one group, and total_locations is the number of
\* groups.
C5_Counts ==
  Grouped =>
    /\ \A i \in DOMAIN Locations :
         Locations[i].provider_count = Len(Locations[i].providers)
    /\ result.meta_grouped.total_providers = SumProviderCount(Locations)
    /\ result.meta_grouped.total_locations = Len(Locations)
    /\ \A n \in DOMAIN InputRecords :
         LET v == InputRecords[n]
             holding == {i \in DOMAIN Locations : Count(Locations[i].providers, v) > 0}
         IN /\ Cardinality(holding) = 1
            /\ \A i \in holding : Count(Locations[i].providers, v) = Count(InputRecords, v)

\* C5's case: several groups, one of several providers, and a record without
\* a usable address in the input.
C5_Witness ==
  /\ Grouped
  /\ Len(Locations) >= 2
  /\ \E i \in DOMAIN Locations : Locations[i].provider_count >= 2
  /\ \E n \in DOMAIN InputRecords : ~UsableAddress(InputRecords[n])

\* C6: the locations are in non-decreasing order of full_address, compared
\* by code point.
C6_SortedByFullAddress ==
  Grouped =>
    \A i, j \in DOMAIN Locations :
      i < j => StrLeq(Locations[i].location.full_address,
                      Locations[j].location.full_address)

\* C6's case: three groups that the order of their keys would place
\* otherwise than the order of their full addresses.
C6_Witness ==
  /\ Grouped
  /\ Len(Locations) >= 3
  /\ \E i, j \in DOMAIN Locations :
       /\ i < j
       /\ StrLess(Locations[i].location.full_address, Locations[j].location.full_address)
       /\ StrLess(LocationKeyOf[Locations[j].providers[1], UseBase],
                  LocationKeyOf[Locations[i].providers[1], UseBase])

\* The input records whose key is k, in input order.
RecordsWithKey(k) ==
  SelectSeq(InputRecords, LAMBDA r : LocationKeyOf[r, UseBase] = k)

\* C7: a group's location fields are those of the first input record with
\* the group's key, its providers are the input records with that key in
\* input order, and there is one group for each key of the input.
C7_FirstSeenAndInputOrder ==
  Grouped =>
    /\ \A i \in DOMAIN Locations :
         LET g == Locations[i]
             members == RecordsWithKey(LocationKeyOf[g.providers[1], UseBase])
             first == members[1]
             field(f, default) == IF f \in DOMAIN first THEN first[f] ELSE default
         IN /\ g.providers = members
            /\ g.location.address = field("address", <<>>)
            /\ g.location.city = field("city", <<>>)
            /\ g.location.state = field("state", <<>>)
            /\ g.location.zip = field("zip", <<>>)
            /\ g.location.county = field("county", <<>>)
            /\ g.location.phone = field("phone", <<>>)
            /\ g.location.website = field("website", None)
            /\ g.location.distance_miles = field("distance_miles", None)
            /\ g.location.full_address = get_full_address(first)
    /\ Len(Locations) =
         Cardinality({LocationKeyOf[InputRecords[n], UseBase] : n \in DOMAIN InputRecords})

\* C7's case: a group of several records that differ in their raw fields,
\* placed by the final sort after a group whose first record came later in
\* the input.
C7_Witness ==
  /\ Grouped
  /\ \E i \in DOMAIN Locations :
       LET ps == Locations[i].providers
       IN /\ Len(ps) >= 2
          /\ Get(ps[1], "address") # Get(ps[Len(ps)], "address")
          /\ Get(ps[1], "phone") # Get(ps[Len(ps)], "phone")
          /\ i > 1
          /\ \E m, n \in DOMAIN InputRecords :
               /\ m < n
               /\ InputRecords[m] = ps[1]
               /\ InputRecords[n] = Locations[1].providers[1]

\* Street addresses and suite identifiers of C8's pairs.
Streets == {s_main, s_celeste}

SuiteIds == {<<"2">>, <<"3">>}

\* r1 and r2 are the same street address in the same city, state and zip,
\* r2 with a suite and r1 bare or with another suite.
SuitePair(r1, r2) ==
  /\ "address" \in DOMAIN r1 /\ "address" \in DOMAIN r2
  /\ \E street \in Streets, j \in SuiteIds :
       /\ r2.address = WithSuite(street, j)
       /\ \/ r1.address = street
          \/ \E i \in SuiteIds \ {j} : r1.address = WithSuite(street, i)
  /\ \A f \in {"city", "state", "zip"} : Get(r1, f) = Get(r2, f)

\* C8: two such records alone in the input make one group in base-address
\* mode (provider_count 2, providers in input order, full_address from the
\* first record) and two groups in exact-address mode.
C8_SuiteHandling ==
  (/\ Grouped
   /\ Len(InputRecords) = 2
   /\ SuitePair(InputRecords[1], InputRecords[2]) \/ SuitePair(InputRecords[2], InputRecords[1]))
  => IF UseBase
     THEN /\ Len(Locations) = 1
          /\ Locations[1].provider_count = 2
          /\ Locations[1].providers = InputRecords
          /\ Locations[1].location.full_address = get_full_address(InputRecords[1])
     ELSE Len(Locations) = 2

\* C10: exit code 0 when the input file exists and holds valid JSON that
\* grouping processes (an input with no records included); exit code 1 after
\* a diagnostic when the file is missing, is not valid JSON, or processing
\* fails.
C10_ExitStatus ==
  pc = "done" =>
    /\ Grouped => exit_code = 0
    /\ ~Grouped => exit_code = 1 /\ stdout # <<>>

\* The command line args gives no output file: the argument is missing, or it
\* is the empty string (output_file is falsy).
OutputFileOmitted(args) == Len(args) < 3 \/ args[3] = ""

\* C11: a run that was given no output file writes no file: the file system
\* after the run is the file system before it.
C11_NotPersisted ==
  [][(pc = "start" /\ pc' = "done" /\ OutputFileOmitted(argv')) => fs' = fs]_vars

\* The location key of input record n in the given mode.
KeyOfRecord(n, use_base_address) == LocationKeyOf[InputRecords[n], use_base_address]

\* The number of locations the input of the run gives in the given mode.
LocationCount(use_base_address) ==
  Len(group_providers_by_address(InputOf.value, use_base_address).locations)

\* C15: two records of the input with the same key in exact mode have the
\* same key in base mode, and the input gives at most as many locations in
\* base mode as in exact mode.
C15_BaseCoarsensExact ==
  Grouped =>
    /\ \A m, n \in DOMAIN InputRecords :
         KeyOfRecord(m, FALSE) = KeyOfRecord(n, FALSE)
           => KeyOfRecord(m, TRUE) = KeyOfRecord(n, TRUE)
    /\ LocationCount(TRUE) <= LocationCount(FALSE)

(***************************************************************************)
(* Properties of the address functions                                     *)
(***************************************************************************)
\* C2: normalize_address is idempotent.
C2_NormalizeIdempotent ==
  call.fn = "normalize_address" => normalize_address(call.ret) = call.ret

\* C3: records whose key components differ get different keys, and the
\* separator occurs in no component.
C3_KeyCollisionFree ==
  call.fn = "create_location_key" =>
    LET m == call.use_base_address
        c == KeyComponents(call.arg, m)
    IN /\ \A q \in KeyRecords :
            KeyComponents(q, m) # c => create_location_key(q, m) # call.ret
       /\ \A n \in DOMAIN c : \A i \in DOMAIN c[n] : <<c[n][i]>> # KeySep

\* The record p without the field f.
Without(p, f) == [k \in DOMAIN p \ {f} |-> p[k]]

\* C4: a field holding "null" gives the key of the record without the
\* field, in both modes; normalize_address("null") and
\* get_base_address("null") are the empty string.
C4_NullIsAbsent ==
  /\ call.fn = "create_location_key" =>
       \A f \in {"address", "city", "state", "zip"} :
         (f \in DOMAIN call.arg /\ call.arg[f] = s_null)
           => call.ret = create_location_key(Without(call.arg, f), call.use_base_address)
  /\ (call.fn \in {"normalize_address", "get_base_address"} /\ call.arg = s_null)
       => call.ret = <<>>

\* The street-type abbreviations and their full words.
Abbreviations == {w_st, w_ave, w_rd, w_blvd, w_dr, w_ct, w_ln}

FullWord(t) ==
  CASE lower(t) = w_st -> w_street [] lower(t) = w_ave -> w_avenue
    [] lower(t) = w_rd -> w_road [] lower(t) = w_blvd -> w_boulevard
    [] lower(t) = w_dr -> w_drive [] lower(t) = w_ct -> w_court
    [] lower(t) = w_ln -> w_lane [] OTHER -> t

\* w stands at position i of s as a word of its own.
StandaloneAt(s, i, w) ==
  StartsWithAt(s, i, w) /\ WordBoundaryAt(s, i) /\ WordBoundaryAt(s, i + Len(w))

\* Token n of ts is a word of its own in the concatenation of ts.
StandaloneToken(ts, n) ==
  /\ \A i \in DOMAIN ts[n] : isword(ts[n][i])
  /\ n > 1 => ~isword(ts[n - 1][Len(ts[n - 1])])
  /\ n < Len(ts) => ~isword(ts[n + 1][1])

\* ts with every abbreviation that is a word of its own written in full.
WrittenInFull(ts) ==
  [n \in DOMAIN ts |-> IF StandaloneToken(ts, n) THEN FullWord(ts[n]) ELSE ts[n]]

\* C9: the result of normalize_address holds no street-type abbreviation as
\* a word of its own; the address with its abbreviations written in full
\* normalizes to the same string; and the street-type rules change nothing
\* of an address that holds no street type as a word of its own.
C9_StreetTypeExpansion ==
  call.fn = "normalize_address" =>
    /\ \A w \in Abbreviations : \A i \in DOMAIN call.ret : ~StandaloneAt(call.ret, i, w)
    /\ normalize_address(Concat(WrittenInFull(call.tokens))) = call.ret
    /\ (\A n \in DOMAIN call.tokens :
          StandaloneToken(call.tokens, n)
            => FullWord(call.tokens[n]) = call.tokens[n] /\ call.tokens[n] # w_street)
         => ApplyRules(StreetTypeRules, strip(lower(call.arg))) = strip(lower(call.arg))

\* A suite/unit marker stands in s as a word of its own.
HasStandaloneMarker(s) ==
  \E k \in DOMAIN BaseMarkers, i \in DOMAIN s : StandaloneAt(lower(s), i, BaseMarkers[k])

\* C16: get_base_address removes nothing of an address in which no suite/unit
\* marker stands as a word of its own: the result is the address trimmed and
\* lowercased.
C16_OnlyStandaloneMarkers ==
  (call.fn = "get_base_address" /\ ~HasStandaloneMarker(call.arg))
    => call.ret = strip(lower(call.arg))

(***************************************************************************)
(* Properties of a run of extract_dental_data.py                           *)
(***************************************************************************)
\* The run of the script printed its locations.
Extracted == pc = "done" /\ exit_code = 0

\* The records of the input that have a valid address.
DentalSource ==
  {p \in Range(fs[DentalInputFile].value.providers) :
     Truthy(Get(p, "address")) /\ p.address # s_null}

\* The value of field k of source record p with "null" taken as absent.
Cleaned(p, k) == IF Get(p, k) = s_null THEN None ELSE Get(p, k)

\* The provider entry of source record p when "null" is absent: None for
\* phone and website, the default for specialty.
CleanEntry(p) ==
  [name |-> Or(Get(p, "name"), s_dental_provider),
   specialty |-> Or(Cleaned(p, "specialty"), s_dental),
   phone |-> OrNone(Cleaned(p, "phone")),
   website |-> OrNone(Cleaned(p, "website"))]

\* C13: in the emitted locations no provider entry's phone, website or
\* specialty and no location phone is "null", and every source record with a
\* valid address is emitted with its "null" fields absent.
C13_NullSentinelAbsent ==
  Extracted =>
    /\ \A i \in DOMAIN result :
         /\ result[i].location.phone # s_null
         /\ \A j \in DOMAIN result[i].providers :
              /\ result[i].providers[j].phone # s_null
              /\ result[i].providers[j].website # s_null
              /\ result[i].providers[j].specialty # s_null
    /\ \A p \in DentalSource :
         \E i \in DOMAIN result : \E j \in DOMAIN result[i].providers :
           result[i].providers[j] = CleanEntry(p)

(***************************************************************************)
(* Properties of analyze_health_need                                       *)
(***************************************************************************)
\* The call got a reply with status 200 from the classification provider.
SuccessfulReply ==
  /\ call.fn = "analyze_health_need"
  /\ call.key_set
  /\ call.reply.kind = "response"
  /\ call.reply.status_code = 200

\* The label of a reply: its content trimmed and in lower case when the
\* reply has a content, None when it has not.
UpstreamLabel(reply) ==
  IF reply.body.kind = "completion" /\ reply.body.content # None
  THEN lower(strip(reply.body.content))
  ELSE None

\* C12: a reply with status 200 is answered with status 200 and one label of
\* the closed set: the upstream label when it is in the set, primary_care
\* when the content is absent or is not in the set.
C12_OneLabelOrFallback ==
  SuccessfulReply =>
    /\ call.ret.status_code = 200
    /\ call.ret.providerType =
         (IF UpstreamLabel(call.reply) \in Category
          THEN UpstreamLabel(call.reply) ELSE c_primary_care)

(***************************************************************************)
(* Properties of the cache and of /providers                               *)
(***************************************************************************)
\* The calls of the log with the given operation.
Events(op) == {n \in DOMAIN log : log[n].op = op}

\* The latest cache_set of the key of event n before it, 0 when there is none.
LastSet(n) ==
  LET S == {m \in Events("cache_set") : m < n /\ log[m].key = log[n].key}
  IN IF S = {} THEN 0 ELSE CHOOSE m \in S : \A k \in S : k <= m

\* The age, at event n, of what event m stored.
Age(m, n) == log[n].at - log[m].at

\* Event n is a lookup that finds what the latest cache_set of its key
\* stored, not older than CACHE_TTL_SECONDS.
FreshLookup(n) ==
  /\ log[n].op = "cache_get"
  /\ LastSet(n) # 0
  /\ Age(LastSet(n), n) <= CACHE_TTL_SECONDS

\* Event n is a lookup of an entry older than CACHE_TTL_SECONDS.
StaleLookup(n) ==
  /\ log[n].op = "cache_get"
  /\ LastSet(n) # 0
  /\ Age(LastSet(n), n) > CACHE_TTL_SECONDS

\* The calls request id made to the places provider.
UpstreamCalls(id) == {n \in Events("nearby") \cup Events("details") : log[n].by = id}

\* C14: cache_get returns a value only when it is what the latest cache_set
\* of the key stored, at most CACHE_TTL_SECONDS before; a lookup of an older
\* entry returns nothing and removes the entry; and a /providers request that
\* finds a fresh entry returns it and makes no call to the places provider.
C14_CacheTTL ==
  \A n \in Events("cache_get") :
    /\ log[n].ret # None => FreshLookup(n) /\ log[n].ret = log[LastSet(n)].value
    /\ StaleLookup(n) =>
         /\ log[n].ret = None
         /\ (\A m \in Events("cache_set") : m > n => log[m].key # log[n].key)
              => log[n].key \notin DOMAIN _CACHE
    /\ FreshLookup(n) =>
         /\ requests[log[n].by].cached
         /\ requests[log[n].by].response =
              [status_code |-> 200, body |-> log[LastSet(n)].value]
         /\ UpstreamCalls(log[n].by) = {}

\* C14's case: a request found an entry stored exactly CACHE_TTL_SECONDS
\* before and was answered with it.
C14_Witness ==
  \E n \in Events("cache_get") :
    /\ FreshLookup(n)
    /\ Age(LastSet(n), n) = CACHE_TTL_SECONDS
    /\ requests[log[n].by].pc = "done"
    /\ requests[log[n].by].cached

\* Request id awaits the places provider.
Awaiting(id) == requests[id].pc \in {"nearby", "details"}

\* C17: of the requests with the same cache key that are being handled at
\* the same time, at most one has called the nearby search within one
\* lifetime of a cache item.
C17_OneNearbyCallPerKey ==
  \A m, n \in Events("nearby") :
    (/\ m < n
     /\ log[m].key = log[n].key
     /\ Age(m, n) <= CACHE_TTL_SECONDS
     /\ Awaiting(log[m].by) /\ Awaiting(log[n].by))
    => FALSE

====
